---- MODULE Spec2Model ----
(***************************************************************************)
(* EMDAT eye-tracking feature generation.                                  *)
(*                                                                         *)
(* Part 1: TobiiV2Recording.read_saccade_data, the saccade reconstructor   *)
(*         that walks the rows of the exported data file.                  *)
(* Part 2: BasicParticipant.__init__ and read_participants_Basic, the      *)
(*         construction of one Participant and the batch reader.           *)
(*                                                                         *)
(* A cell of the tab separated file is a string.  It is modelled as a      *)
(* sequence: <<>> is the empty string (falsy in Python), <<n>> is the text *)
(* of the integer n (truthy, also for n = 0).  cast_int turns <<n>> into n.*)
(***************************************************************************)
EXTENDS Integers, Sequences, FiniteSets, TLC

\* ------------------------------------------------------------------ bounds
\* Longest file (number of rows handed out by the csv reader).
MaxRows == 5

\* ------------------------------------------------------------- input cells
EmptyCell == <<>>
Cell(n) == <<n>>

\* EMDAT_core.utils.cast_int on a cell that holds an integer.
cast_int(cell) == cell[1]

\* The media name the reader accepts, and another one.
RecMedia == "Screen Recordings (1)"
OtherMedia == "ScreenRec"

GazeEventTypes == {"Fixation", "Saccade", "Unclassified"}
\* Tobii validity codes <<left, right>> of a row; the code accepts an eye whose
\* code is below 2.
ValidityPairs == {<<0, 4>>, <<4, 0>>, <<4, 4>>}
GazeCells == {<<EmptyCell, EmptyCell>>, <<Cell(1), Cell(1)>>}
FixationCells == {<<EmptyCell, EmptyCell>>, <<Cell(3), Cell(3)>>}
\* RecordingTimestamp never decreases from one row to the next.
TimeSteps == {0, 1}

\* The quality threshold params.VALID_SAMPLES_PROP_SACCADE as a fraction
\* <<numerator, denominator>>: 0.6 and 1.
Thresholds == {<<3, 5>>, <<1, 1>>}

MakeRow(media, ett, type, v, g, f, ts) ==
    [MediaName |-> media, EyeTrackerTimestamp |-> ett, GazeEventType |-> type,
     ValidityLeft |-> Cell(v[1]), ValidityRight |-> Cell(v[2]),
     GazePointX |-> g[1], GazePointY |-> g[2],
     FixationPointX |-> f[1], FixationPointY |-> f[2],
     RecordingTimestamp |-> Cell(ts)]

\* Rows of the recording the reader can hand out when the previous row had
\* timestamp `clock`.  The tracker fills the fixation point of Fixation rows only.
RecordingRowsAfter(clock) ==
    { MakeRow(RecMedia, Cell(7), "Fixation", v, g, f, clock + d) :
        v \in ValidityPairs, g \in GazeCells, f \in FixationCells, d \in TimeSteps }
    \cup
    { MakeRow(RecMedia, Cell(7), t, v, g, <<EmptyCell, EmptyCell>>, clock + d) :
        t \in {"Saccade", "Unclassified"}, v \in ValidityPairs,
        g \in GazeCells, d \in TimeSteps }

\* Rows of another media, or without eye tracker timestamp.
OtherRowsAfter(clock) ==
    { MakeRow(me[1], me[2], t, <<4, 0>>, <<Cell(1), Cell(1)>>, <<Cell(3), Cell(3)>>,
              clock + 1) :
        me \in {<<OtherMedia, Cell(7)>>, <<RecMedia, EmptyCell>>},
        t \in {"Fixation", "Saccade"} }

RowsAfter(clock) == RecordingRowsAfter(clock) \cup OtherRowsAfter(clock)

NoRow == MakeRow(OtherMedia, EmptyCell, "Unclassified", <<4, 4>>,
                 <<EmptyCell, EmptyCell>>, <<EmptyCell, EmptyCell>>, 0)

\* An optional argument or value: None, or the value given.
None == <<>>
Some(v) == <<v>>

\* ------------------------------------------------------------------- state
VARIABLES
    threshold,          \* params.VALID_SAMPLES_PROP_SACCADE
    row,                \* the row of the current loop iteration
    nread,              \* rows handed out by the reader so far
    pc,                 \* "reading", "returned" or "raised"
    all_saccade,
    in_saccade,
    in_fixation,
    last_gaze_coord,
    saccade_vect,
    saccade_duration,
    nb_invalid_temp,
    nb_valid_sample,
    nb_sample,
    last_valid,
    rate_valid_sample,  \* <<nb_valid_sample, nb_sample>> of the last division
    fixation_seen,      \* history: a Fixation row of the recording was read
    stream,             \* history: the rows read (kept by SpecPattern and SpecStream)
    opened,             \* history: windows opened (kept by SpecStream only)
    closed,             \* history: windows closed (kept by SpecStream only)
    \* --- BasicParticipant.py
    EYETRACKERTYPE,     \* params.EYETRACKERTYPE
    args,               \* the optional arguments as the caller passed them
    entry,              \* "batch": read_participants_Basic; "construct": the constructor
    disk,               \* per recording: the files present and what they hold
    user_list,
    pids,
    log_time_offsets,   \* None, or the list of offsets
    idx,                \* triples of the zip consumed so far
    bpc,                \* "idle", "start", "loop", "construct", "returned" or "raised"
    exception,          \* the exception that ended the run, "" when none
    participants,
    error_log,          \* pids written by log_to_file
    self,               \* the BasicParticipant under construction
    cpc,                \* the next step of the constructor
    calls,              \* history: the calls made by the constructor, in order
    \* --- TobiiV2Recording.read_all_data
    all_rows,           \* history: the rows of the All-Data file read so far
    all_data,
    last_pupil_left,
    last_pupil_right,
    last_time,
    dpc                 \* "idle", "reading", "returned" or "raised"

recvars == <<all_saccade, in_saccade, in_fixation, last_gaze_coord, saccade_vect,
             saccade_duration, nb_invalid_temp, nb_valid_sample, nb_sample,
             last_valid, rate_valid_sample>>
saccvars == <<threshold, row, nread, pc, recvars, fixation_seen, stream, opened, closed>>
batchvars == <<EYETRACKERTYPE, args, entry, disk, user_list, pids, log_time_offsets, idx, bpc,
               exception, participants, error_log, self, cpc, calls>>
datavars == <<all_rows, all_data, last_pupil_left, last_pupil_right, last_time, dpc>>
vars == <<saccvars, batchvars, datavars>>

\* ------------------------------------------------- read_saccade_data: tests
\* Variant of InRecording: the test of the eye tracker timestamp is left out.
InRecordingMediaOnly(r) == ~(r.MediaName # RecMedia)

\* Lines 149-150: the row is a recording data point.
InRecording(r) ==
    ~(r.MediaName # RecMedia \/ r.EyeTrackerTimestamp = EmptyCell)

\* Lines 164-166, 186-188, 224-226: the gaze sample of the row is valid.
ValidGaze(r) ==
    /\ (cast_int(r.ValidityLeft) < 2 \/ cast_int(r.ValidityRight) < 2)
    /\ r.GazePointX # EmptyCell
    /\ r.GazePointY # EmptyCell

\* Line 193: the row carries the tracker's fixation point.
HasFixationPoint(r) ==
    r.FixationPointX # EmptyCell /\ r.FixationPointY # EmptyCell

GazePoint(r) ==
    <<cast_int(r.RecordingTimestamp), cast_int(r.GazePointX), cast_int(r.GazePointY)>>

FixationPoint(r) ==
    <<cast_int(r.RecordingTimestamp), cast_int(r.FixationPointX),
      cast_int(r.FixationPointY)>>

\* Line 201: rate_valid_sample >= params.VALID_SAMPLES_PROP_SACCADE, on fractions.
QualityAboveThreshold(valid, total, thr) ==
    valid * thr[2] >= thr[1] * total

\* Variant of NextLastGaze: only a valid gaze sample is kept.
NextLastGazeOfValidRow(r) ==
    IF ValidGaze(r) THEN GazePoint(r) ELSE last_gaze_coord

\* Lines 240-251: the last gaze coordinate and its validity after the row.
NextLastGaze(r) ==
    IF r.GazePointX # EmptyCell /\ r.GazePointY # EmptyCell
    THEN GazePoint(r)
    ELSE IF r.GazeEventType = "Fixation" /\ HasFixationPoint(r)
         THEN FixationPoint(r)
         ELSE last_gaze_coord

NextLastValid(r) ==
    IF r.GazePointX # EmptyCell /\ r.GazePointY # EmptyCell
    THEN (cast_int(r.ValidityLeft) < 2 \/ cast_int(r.ValidityRight) < 2)
    ELSE IF r.GazeEventType = "Fixation" /\ HasFixationPoint(r)
         THEN TRUE
         ELSE last_valid

UpdateLastGaze(r) ==
    /\ last_gaze_coord' = NextLastGaze(r)
    /\ last_valid' = NextLastValid(r)

\* ---------------------------------------------- read_saccade_data: the loop
Clock == cast_int(row.RecordingTimestamp)

B2N(b) == IF b THEN 1 ELSE 0

\* Variant of OpenSampleCount: the last gaze sample of the fixation is not counted.
OpenSampleCountWithoutLastGaze(unclassified) == 1 + unclassified

\* Line 175: current gaze sample + last gaze sample of the previous fixation
\* + the unclassified samples in between.
OpenSampleCount(unclassified) == 2 + unclassified

\* Variant of OpenValidCount: the count of the last window is kept.
OpenValidCountCarried(r) == nb_valid_sample + B2N(ValidGaze(r)) + B2N(last_valid)

\* Lines 161-173: valid samples of a window when it opens.
OpenValidCount(r) == B2N(ValidGaze(r)) + B2N(last_valid)

\* Lines 160-169: the window when it opens.
OpenVect(r) ==
    IF ValidGaze(r) THEN <<last_gaze_coord, GazePoint(r)>> ELSE <<last_gaze_coord>>

\* Variant of CloseVect: the fixation point is preferred to the gaze sample.
CloseVectFixationPointFirst(r) ==
    IF HasFixationPoint(r) THEN Append(saccade_vect, FixationPoint(r))
    ELSE IF ValidGaze(r) THEN Append(saccade_vect, GazePoint(r))
    ELSE saccade_vect

\* Lines 186-197: the window when a Fixation row closes it.
CloseVect(r) ==
    IF ValidGaze(r) THEN Append(saccade_vect, GazePoint(r))
    ELSE IF HasFixationPoint(r) THEN Append(saccade_vect, FixationPoint(r))
    ELSE saccade_vect

\* Lines 186-197: what the closing row adds to nb_valid_sample.
CloseValidCount(r) == B2N(ValidGaze(r) \/ HasFixationPoint(r))

\* Variant of Duration: measured from the second point of the window.
DurationFromSecondPoint(r, vect) == cast_int(r.RecordingTimestamp) - vect[2][1]

\* Lines 202-203.
Duration(r, vect) == cast_int(r.RecordingTimestamp) - vect[1][1]

\* Line 206: float(dist) / duration raises ZeroDivisionError when duration is 0.
SpeedDefined(duration) == duration # 0

\* Lines 207-218: the data of the Saccade.  The distance and the speed are
\* computed by EMDAT_core from saccade_vect and are not part of the record;
\* saccadeindex is copied from the row and never read by the loop.
SaccadeData(vect, duration, valid, total) ==
    [timestamp |-> vect[1][1],
     saccadeduration |-> duration,
     saccadestartpointx |-> vect[1][2],
     saccadestartpointy |-> vect[1][3],
     saccadeendpointx |-> vect[Len(vect)][2],
     saccadeendpointy |-> vect[Len(vect)][3],
     saccadequality |-> <<valid, total>>]

\* Variant of AwaitFixation: every classified row starts a fixation.
AwaitFixationOnClassifiedRow(r) ==
    /\ in_fixation' = (r.GazeEventType # "Unclassified")
    /\ UpdateLastGaze(r)
    /\ UNCHANGED <<pc, all_saccade, in_saccade, saccade_vect, saccade_duration,
                   nb_invalid_temp, nb_valid_sample, nb_sample, rate_valid_sample>>

\* Lines 237-238: waiting for the first fixation.
AwaitFixation(r) ==
    /\ in_fixation' = (r.GazeEventType = "Fixation")
    /\ UpdateLastGaze(r)
    /\ UNCHANGED <<pc, all_saccade, in_saccade, saccade_vect, saccade_duration,
                   nb_invalid_temp, nb_valid_sample, nb_sample, rate_valid_sample>>

\* Lines 154-155 and 177-178: a Fixation or unclassified row during a fixation.
StayInFixation(r) ==
    /\ nb_invalid_temp' = IF r.GazeEventType = "Fixation" THEN 0 ELSE nb_invalid_temp + 1
    /\ UpdateLastGaze(r)
    /\ UNCHANGED <<pc, all_saccade, in_saccade, in_fixation, saccade_vect,
                   saccade_duration, nb_valid_sample, nb_sample, rate_valid_sample>>

\* Variant of OpenWindow: in_fixation is not cleared.
OpenWindowInFixation(r) ==
    /\ in_fixation' = TRUE
    /\ in_saccade' = TRUE
    /\ saccade_vect' = OpenVect(r)
    /\ nb_valid_sample' = OpenValidCount(r)
    /\ nb_sample' = OpenSampleCount(nb_invalid_temp)
    /\ nb_invalid_temp' = 0
    /\ UpdateLastGaze(r)
    /\ UNCHANGED <<pc, all_saccade, saccade_duration, rate_valid_sample>>

\* Lines 156-176: a Saccade row during a fixation opens a window.
OpenWindow(r) ==
    /\ in_fixation' = FALSE
    /\ in_saccade' = TRUE
    /\ saccade_vect' = OpenVect(r)
    /\ nb_valid_sample' = OpenValidCount(r)
    /\ nb_sample' = OpenSampleCount(nb_invalid_temp)
    /\ nb_invalid_temp' = 0
    /\ UpdateLastGaze(r)
    /\ UNCHANGED <<pc, all_saccade, saccade_duration, rate_valid_sample>>

\* Lines 223-234: a Saccade or unclassified row inside a window.
StayInSaccade(r) ==
    LET counted == r.GazeEventType = "Saccade" /\ ValidGaze(r) IN
    /\ saccade_vect' = IF counted THEN Append(saccade_vect, GazePoint(r))
                       ELSE saccade_vect
    /\ nb_valid_sample' = nb_valid_sample + B2N(counted)
    /\ nb_sample' = nb_sample + 1
    /\ nb_invalid_temp' = 0
    /\ UpdateLastGaze(r)
    /\ UNCHANGED <<pc, all_saccade, in_saccade, in_fixation, saccade_duration,
                   rate_valid_sample>>

\* Lines 181-221 and 234: a Fixation row closes the window.
CloseWindow(r) ==
    LET vect == CloseVect(r)
        valid == nb_valid_sample + CloseValidCount(r)
        total == nb_sample + 1
        duration == Duration(r, vect)
    IN
    /\ in_fixation' = TRUE
    /\ in_saccade' = FALSE
    /\ saccade_vect' = vect
    /\ rate_valid_sample' = <<valid, total>>
    /\ IF QualityAboveThreshold(valid, total, threshold)
       THEN /\ saccade_duration' = duration
            /\ IF SpeedDefined(duration)
               THEN /\ all_saccade' = Append(all_saccade,
                                             SaccadeData(vect, duration, valid, total))
                    /\ nb_valid_sample' = 0
                    /\ nb_sample' = 0
                    /\ nb_invalid_temp' = 0
                    /\ UpdateLastGaze(r)
                    /\ UNCHANGED pc
               ELSE /\ pc' = "raised"
                    /\ nb_valid_sample' = valid
                    /\ nb_sample' = total
                    /\ UNCHANGED <<all_saccade, nb_invalid_temp, last_gaze_coord,
                                   last_valid>>
       ELSE /\ nb_valid_sample' = valid
            /\ nb_sample' = total
            /\ nb_invalid_temp' = 0
            /\ UpdateLastGaze(r)
            /\ UNCHANGED <<pc, all_saccade, saccade_duration>>

\* Lines 147-251: one iteration of the loop over the rows.
LoopBody(r) ==
    IF ~InRecording(r) THEN UNCHANGED <<pc, recvars>>
    ELSE IF in_fixation
         THEN IF r.GazeEventType = "Saccade" THEN OpenWindow(r) ELSE StayInFixation(r)
    ELSE IF in_saccade
         THEN IF r.GazeEventType = "Fixation" THEN CloseWindow(r) ELSE StayInSaccade(r)
    ELSE AwaitFixation(r)

\* A Fixation-classified row of the recording region, in the words of the
\* file format (not of the loop's own test).
IsRecordingFixationRow(r) ==
    /\ r.MediaName = RecMedia
    /\ r.EyeTrackerTimestamp # EmptyCell
    /\ r.GazeEventType = "Fixation"

\* Line 147: the reader hands out the next row and the loop body runs on it.
ReadRow ==
    /\ pc = "reading"
    /\ nread < MaxRows
    /\ \E r \in RowsAfter(Clock) :
          /\ row' = r
          /\ nread' = nread + 1
          /\ fixation_seen' = (fixation_seen \/ IsRecordingFixationRow(r))
          /\ LoopBody(r)
    /\ UNCHANGED <<threshold, stream, opened, closed, batchvars, datavars>>

\* Variant of Return: a window still open is emitted when the reader is
\* exhausted.
ReturnWithOpenWindow ==
    /\ pc = "reading"
    /\ pc' = "returned"
    /\ all_saccade' =
          IF in_saccade
          THEN Append(all_saccade,
                      SaccadeData(saccade_vect, 0, nb_valid_sample, nb_sample))
          ELSE all_saccade
    /\ UNCHANGED <<threshold, row, nread, in_saccade, in_fixation, last_gaze_coord,
                   saccade_vect, saccade_duration, nb_invalid_temp, nb_valid_sample,
                   nb_sample, last_valid, rate_valid_sample, fixation_seen, stream,
                   opened, closed, batchvars, datavars>>

\* Line 253: the reader is exhausted and the list is returned.
Return ==
    /\ pc = "reading"
    /\ pc' = "returned"
    /\ UNCHANGED <<threshold, row, nread, recvars, fixation_seen, stream, opened, closed,
                   batchvars, datavars>>

\* Lines 132-145.
InitSaccade(thresholds) ==
    /\ threshold \in thresholds
    /\ row = NoRow
    /\ nread = 0
    /\ pc = "reading"
    /\ all_saccade = <<>>
    /\ in_saccade = FALSE
    /\ in_fixation = FALSE
    /\ last_gaze_coord = <<0, 0, 0>>
    /\ saccade_vect = <<>>
    /\ saccade_duration = 0
    /\ nb_invalid_temp = 0
    /\ nb_valid_sample = 0
    /\ nb_sample = 0
    /\ last_valid = FALSE
    /\ rate_valid_sample = <<>>
    /\ fixation_seen = FALSE
    /\ opened = 0
    /\ closed = 0
    /\ stream = <<>>

\* No batch is running.
NoParticipant == [pid |-> 0]

BatchIdle ==
    /\ EYETRACKERTYPE = "TobiiV2"
    /\ args = <<>>
    /\ entry = "batch"
    /\ disk = <<>>
    /\ user_list = <<>>
    /\ pids = <<>>
    /\ log_time_offsets = None
    /\ idx = 0
    /\ bpc = "idle"
    /\ exception = ""
    /\ participants = <<>>
    /\ error_log = <<>>
    /\ self = NoParticipant
    /\ cpc = ""
    /\ calls = <<>>

\* read_all_data is not running.
DataIdle ==
    /\ all_rows = <<>>
    /\ all_data = <<>>
    /\ last_pupil_left = None
    /\ last_pupil_right = None
    /\ last_time = -1
    /\ dpc = "idle"

Init == InitSaccade(Thresholds) /\ BatchIdle /\ DataIdle

Next == ReadRow \/ Return

Spec == Init /\ [][Next]_vars

\* ------------------------------------------------ the synthetic test stream
\* Section 8 of the design: Fixation, Fixation, Saccade, Saccade, Fixation, every
\* row in the recording with a valid eye and gaze coordinates.
Pattern == <<"Fixation", "Fixation", "Saccade", "Saccade", "Fixation">>

PatternRowsAfter(clock, type) ==
    { r \in RecordingRowsAfter(clock) :
        /\ r.GazeEventType = type
        /\ (cast_int(r.ValidityLeft) < 2 \/ cast_int(r.ValidityRight) < 2)
        /\ r.GazePointX # EmptyCell
        /\ r.GazePointY # EmptyCell }

ReadPatternRow ==
    /\ pc = "reading"
    /\ nread < Len(Pattern)
    /\ \E r \in PatternRowsAfter(Clock, Pattern[nread + 1]) :
          /\ row' = r
          /\ nread' = nread + 1
          /\ fixation_seen' = (fixation_seen \/ IsRecordingFixationRow(r))
          /\ stream' = Append(stream, r)
          /\ LoopBody(r)
    /\ UNCHANGED <<threshold, opened, closed, batchvars, datavars>>

ReturnPattern ==
    /\ nread = Len(Pattern)
    /\ Return

NextPattern == ReadPatternRow \/ ReturnPattern

SpecPattern == Init /\ [][NextPattern]_vars

\* ------------------------------------------------- streams kept as history
\* Most rows of a stream whose rows are kept.
MaxStream == 4

\* A stream of strictly increasing timestamps, so that a point <<timestamp,
\* x, y>> names the row it was read from: the recording rows whose right eye
\* is invalid.
StreamRowsAfter(clock) ==
    { r \in RecordingRowsAfter(clock) :
        /\ cast_int(r.RecordingTimestamp) = clock + 1
        /\ cast_int(r.ValidityRight) = 4 }

ReadStreamRow ==
    /\ pc = "reading"
    /\ nread < MaxStream
    /\ \E r \in StreamRowsAfter(Clock) :
          /\ row' = r
          /\ nread' = nread + 1
          /\ fixation_seen' = (fixation_seen \/ IsRecordingFixationRow(r))
          /\ stream' = Append(stream, r)
          /\ LoopBody(r)
          /\ opened' = opened + B2N(in_fixation /\ in_saccade')
          /\ closed' = closed + B2N(in_saccade /\ in_fixation')
    /\ UNCHANGED <<threshold, batchvars, datavars>>

ReturnStream ==
    /\ nread > 0
    /\ Return

NextStream == ReadStreamRow \/ ReturnStream

InitStream == InitSaccade({<<3, 5>>}) /\ BatchIdle /\ DataIdle

SpecStream == InitStream /\ [][NextStream]_vars

\* ======================================================= BasicParticipant.py
\* Most recordings of a batch.
MaxRecs == 2

TrackerTypes == {"TobiiV2", "TobiiV3", "SMI", "Other"}

\* The offsets a caller gives for n recordings: 3 for each, or for all but
\* the last.
OffsetLists(n) ==
    { [k \in 1..m |-> 3] : m \in {n} \cup ({n - 1} \cap Nat) }

\* Lines 161-163: the optional arguments of read_participants_Basic for n
\* recordings: all left at their defaults, or with a rest-pupil-size file, or
\* all given; with or without offsets.
ArgSets(n) ==
    { [prune_length |-> a[1], aoifile |-> a[2], require_valid_segs |-> a[3],
       rpsfile |-> a[4], log_time_offsets |-> o] :
        a \in { <<None, None, TRUE, None>>,
                <<None, None, TRUE, Some("rps")>>,
                <<Some(1000), Some("aoi"), FALSE, Some("rps")>> },
        o \in {None} \cup { Some(l) : l \in OffsetLists(n) } }

\* ------------------------------------------------------------------ the disk
\* The segment-definition file of a recording: its scenes, each with segments
\* <<name, start>>.  Either no segment at all, or two scenes with three
\* segments whose starts are neither sorted nor distinct.
NoSegments == <<>>
TwoScenes == << [name |-> "s1", segs |-> << <<"a", 5>> >>],
               [name |-> "s2", segs |-> << <<"b", 0>>, <<"c", 5>> >>] >>

AllFiles == {"samples", "events", "seg"}

\* What the disk holds for one recording: the files present ("samples": the
\* All-Data or Samples file, "events": the Fixation-Data or Events file, "seg":
\* the segment file), whether the samples file has a malformed row or lacks a
\* column, and the segment-definition file.
DiskStates ==
    { [present |-> AllFiles, malformed |-> m, seg |-> g] :
        m \in BOOLEAN, g \in {NoSegments, TwoScenes} }
    \cup
    { [present |-> AllFiles \ {f}, malformed |-> FALSE, seg |-> TwoScenes] :
        f \in AllFiles }

\* Lines 215-234: the files of recording `rec`, by the kind of file they name.
RecordingFiles(tracker, rec) ==
    IF tracker = "TobiiV2"
    THEN [allfile |-> <<rec, "samples">>, fixfile |-> <<rec, "events">>,
          sacfile |-> <<>>, evefile |-> <<>>, segfile |-> <<rec, "seg">>]
    ELSE IF tracker = "TobiiV3"
    THEN [allfile |-> <<rec, "samples">>, fixfile |-> <<rec, "samples">>,
          sacfile |-> <<rec, "samples">>, evefile |-> <<>>, segfile |-> <<rec, "seg">>]
    ELSE [allfile |-> <<rec, "samples">>, fixfile |-> <<rec, "events">>,
          sacfile |-> <<rec, "events">>, evefile |-> <<rec, "events">>,
          segfile |-> <<rec, "seg">>]

\* os.path.exists and open(): the file of that kind is on the disk.
Exists(path) == path[2] \in disk[path[1]].present

\* --------------------------------------------------------- EMDAT_core calls
\* Recording.__init__ reads the samples file and the fixation file with the
\* tracker's readers: "" when both are read, else the exception raised.
ReadRecording(datafile, fixfile) ==
    IF ~Exists(datafile) \/ ~Exists(fixfile) THEN "FileNotFoundError"
    ELSE IF disk[datafile[1]].malformed THEN "ParseError"
    ELSE ""

\* partition(segfile): the scenes of the file and the number of segments.
RECURSIVE CountSegments(_)
CountSegments(scenelist) ==
    IF scenelist = <<>> THEN 0
    ELSE Len(Head(scenelist).segs) + CountSegments(Tail(scenelist))

partition(segfile) == disk[segfile[1]].seg

\* rec.process_rec: the segments of all scenes in file order, and one Scene for
\* each scene of the file.
RECURSIVE AllSegments(_)
AllSegments(scenelist) ==
    IF scenelist = <<>> THEN <<>>
    ELSE Head(scenelist).segs \o AllSegments(Tail(scenelist))

\* Scene(...): the scene keeps the policy inputs it was built with; an
\* argument that is not passed has its default, None.
MakeScene(name, segs, aoilist, prune_length, require_valid, export_pupilinfo, rpsdata) ==
    [name |-> name, segments |-> segs, cleaned |-> FALSE,
     aoilist |-> aoilist, prune_length |-> prune_length,
     require_valid |-> require_valid, export_pupilinfo |-> export_pupilinfo,
     rpsdata |-> rpsdata]

process_rec(scenelist, aoilist, prune_length, require_valid_segs, rpsdata, export_pupilinfo) ==
    [segments |-> AllSegments(scenelist),
     scenes |-> [k \in 1..Len(scenelist) |->
                    MakeScene(scenelist[k].name, scenelist[k].segs, aoilist,
                              prune_length, require_valid_segs, export_pupilinfo,
                              rpsdata)]]

\* read_aois(aoifile): the AOIs of the file.
read_aois(aoifile) == <<"aois", aoifile>>

\* read_rest_pupil_sizes(rpsfile): None without a file, else the table of the
\* file, which has an entry for every pid.
read_rest_pupil_sizes(rpsfile) ==
    IF rpsfile = None THEN None ELSE Some(rpsfile[1])

\* Variant of InsertByStart: the segment goes before those of equal start.
RECURSIVE InsertByStartBeforeEqual(_, _)
InsertByStartBeforeEqual(seg, sorted) ==
    IF sorted = <<>> THEN <<seg>>
    ELSE IF seg[2] <= Head(sorted)[2] THEN <<seg>> \o sorted
    ELSE <<Head(sorted)>> \o InsertByStartBeforeEqual(seg, Tail(sorted))

\* sorted(segments, key=start): a stable insertion sort.
RECURSIVE InsertByStart(_, _)
InsertByStart(seg, sorted) ==
    IF sorted = <<>> THEN <<seg>>
    ELSE IF seg[2] < Head(sorted)[2] THEN <<seg>> \o sorted
    ELSE <<Head(sorted)>> \o InsertByStart(seg, Tail(sorted))

RECURSIVE SortedByStart(_)
SortedByStart(segs) ==
    IF segs = <<>> THEN <<>>
    ELSE InsertByStart(segs[Len(segs)], SortedByStart(SubSeq(segs, 1, Len(segs) - 1)))

\* -------------------------------------------------- BasicParticipant.__init__
\* Lines 103-113: the tracker types with a Recording class.
KnownTracker(tracker) == tracker \in {"TobiiV2", "TobiiV3", "SMI"}

\* Variant of NoSegmentsFound: only a negative count is refused.
NoSegmentsFoundNegative(numofsegments) == numofsegments < 0

\* Lines 121-122: the partition is empty.
NoSegmentsFound(numofsegments) == numofsegments = 0

\* The exception leaves the constructor and, with no handler in
\* read_participants_Basic, the batch.
Raise(e) ==
    /\ exception' = e
    /\ bpc' = "raised"
    /\ cpc' = "raised"

\* Lines 80-97: the constructor is entered.
NewParticipant(pid, files, offset, a, rpsdata, export_pupilinfo) ==
    [pid |-> pid, files |-> files, log_time_offset |-> offset,
     aoifile |-> a.aoifile, prune_length |-> a.prune_length,
     require_valid_segs |-> a.require_valid_segs, rpsdata |-> rpsdata,
     export_pupilinfo |-> export_pupilinfo,
     rec |-> "none", numofsegments |-> -1, scenelist |-> <<>>, aois |-> None,
     segments |-> <<>>, scenes |-> <<>>,
     whole_scene |-> 0]  \* the position in scenes of the Scene it refers to

\* Lines 103-113: the Recording of the tracker type is built from the files.
CreateRecording ==
    /\ bpc = "construct"
    /\ cpc = "recording"
    /\ IF ~KnownTracker(EYETRACKERTYPE)
       THEN /\ Raise("Unknown eye tracker type.")
            /\ UNCHANGED <<self, calls>>
       ELSE LET e == ReadRecording(self.files.allfile, self.files.fixfile) IN
            /\ calls' = Append(calls, <<"Recording", self.pid>>)
            /\ IF e # ""
               THEN Raise(e) /\ UNCHANGED self
               ELSE /\ self' = [self EXCEPT !.rec = "parsed"]
                    /\ cpc' = "partition"
                    /\ UNCHANGED <<bpc, exception>>
    /\ UNCHANGED <<EYETRACKERTYPE, args, entry, disk, user_list, pids, log_time_offsets, idx,
                   participants, error_log, saccvars, datavars>>

\* Lines 119-130: the partition of the segment file.
Partition ==
    /\ bpc = "construct"
    /\ cpc = "partition"
    /\ calls' = Append(calls, <<"partition", self.pid>>)
    /\ IF ~Exists(self.files.segfile)
       THEN Raise("FileNotFoundError") /\ UNCHANGED self
       ELSE LET scenelist == partition(self.files.segfile)
                numofsegments == CountSegments(scenelist)
            IN
            IF NoSegmentsFound(numofsegments)
            THEN /\ Raise("No segments found.")
                 /\ self' = [self EXCEPT !.numofsegments = numofsegments,
                                         !.scenelist = scenelist]
            ELSE /\ self' = [self EXCEPT !.numofsegments = numofsegments,
                                         !.scenelist = scenelist]
                 /\ cpc' = "process_rec"
                 /\ UNCHANGED <<bpc, exception>>
    /\ UNCHANGED <<EYETRACKERTYPE, args, entry, disk, user_list, pids, log_time_offsets, idx,
                   participants, error_log, saccvars, datavars>>

\* Lines 125-140: the AOIs are read, then the features of the scenes and
\* segments are generated.
ProcessRec ==
    /\ bpc = "construct"
    /\ cpc = "process_rec"
    /\ calls' = Append(calls, <<"process_rec", self.pid>>)
    /\ LET aois == IF self.aoifile # None THEN Some(read_aois(self.aoifile[1]))
                   ELSE None
           r == process_rec(self.scenelist, aois, self.prune_length,
                            self.require_valid_segs, self.rpsdata,
                            self.export_pupilinfo)
       IN self' = [self EXCEPT !.aois = aois, !.segments = r.segments,
                               !.scenes = r.scenes]
    /\ cpc' = "whole_scene"
    /\ UNCHANGED <<EYETRACKERTYPE, args, entry, disk, user_list, pids, log_time_offsets, idx,
                   bpc, exception, participants, error_log, saccvars, datavars>>

\* Lines 142-149: the Scene of the whole recording, put first in the list.
WholeScene ==
    /\ bpc = "construct"
    /\ cpc = "whole_scene"
    /\ calls' = Append(calls, <<"Scene", <<self.pid, "_allsc">> >>)
    /\ LET all_segs == SortedByStart(self.segments)
           whole == MakeScene(<<self.pid, "_allsc">>, all_segs, self.aois,
                              self.prune_length, self.require_valid_segs,
                              self.export_pupilinfo, None)
       IN self' = [self EXCEPT !.whole_scene = 1,
                               !.scenes = <<whole>> \o self.scenes]
    /\ cpc' = "clean_scenes"
    /\ UNCHANGED <<EYETRACKERTYPE, args, entry, disk, user_list, pids, log_time_offsets, idx,
                   bpc, exception, participants, error_log, saccvars, datavars>>

\* Variant of NextDirtyScene: the loop starts at the second scene.
NextDirtySceneAfterFirst(scenes) ==
    IF \E k \in 2..Len(scenes) : ~scenes[k].cleaned
    THEN CHOOSE k \in 2..Len(scenes) :
            ~scenes[k].cleaned /\ \A j \in 2..(k - 1) : scenes[j].cleaned
    ELSE 0

\* The first scene of the list not cleaned yet, 0 when there is none.
NextDirtyScene(scenes) ==
    IF \E k \in 1..Len(scenes) : ~scenes[k].cleaned
    THEN CHOOSE k \in 1..Len(scenes) :
            ~scenes[k].cleaned /\ \A j \in 1..(k - 1) : scenes[j].cleaned
    ELSE 0

\* Lines 152-153: one iteration of the loop that cleans the scenes.
CleanScene ==
    /\ bpc = "construct"
    /\ cpc = "clean_scenes"
    /\ NextDirtyScene(self.scenes) # 0
    /\ LET k == NextDirtyScene(self.scenes) IN
       /\ calls' = Append(calls, <<"Scene.clean_memory", k>>)
       /\ self' = [self EXCEPT !.scenes[k].cleaned = TRUE]
    /\ UNCHANGED <<EYETRACKERTYPE, args, entry, disk, user_list, pids, log_time_offsets, idx,
                   bpc, exception, participants, error_log, cpc, saccvars, datavars>>

\* Lines 154-158 and 241: the recording is cleaned, the constructor returns and
\* the batch appends the Participant.
CleanRecording ==
    /\ bpc = "construct"
    /\ cpc = "clean_scenes"
    /\ NextDirtyScene(self.scenes) = 0
    /\ calls' = Append(calls, <<"Recording.clean_memory", self.pid>>)
    /\ self' = [self EXCEPT !.rec = "cleaned"]
    /\ cpc' = "done"
    /\ participants' = Append(participants, self')
    /\ idx' = idx + 1
    /\ bpc' = IF entry = "batch" THEN "loop" ELSE "returned"
    /\ UNCHANGED <<EYETRACKERTYPE, args, entry, disk, user_list, pids, log_time_offsets,
                   exception, error_log, saccvars, datavars>>

\* ---------------------------------------------------- read_participants_Basic
Min(a, b) == IF a < b THEN a ELSE b

\* Line 203: the offset of a recording when no offsets are given.
DefaultOffset == 1

\* Lines 201-206: the list of participants is empty, and a default offset is
\* set for each pid when no offsets were given.
StartBatch ==
    /\ bpc = "start"
    /\ participants' = <<>>
    /\ log_time_offsets' =
          IF log_time_offsets = None
          THEN Some([k \in 1..Len(pids) |-> DefaultOffset])
          ELSE log_time_offsets
    /\ bpc' = "loop"
    /\ UNCHANGED <<EYETRACKERTYPE, args, entry, disk, user_list, pids, idx, exception,
                   error_log, self, cpc, calls, saccvars, datavars>>

\* Line 208: the number of triples zip() yields.
ZipLength == Min(Len(user_list), Min(Len(pids), Len(log_time_offsets[1])))

\* Lines 208-245: one iteration of the loop, up to the constructor call or the
\* log entry.
Iterate ==
    /\ bpc = "loop"
    /\ idx < ZipLength
    /\ LET rec == user_list[idx + 1]
           pid == pids[idx + 1]
           offset == log_time_offsets[1][idx + 1]
           rpsdata == read_rest_pupil_sizes(args.rpsfile)
           currpsdata == IF rpsdata # None THEN Some(<<rpsdata[1], pid>>) ELSE None
           files == RecordingFiles(EYETRACKERTYPE, rec)
       IN
       IF ~KnownTracker(EYETRACKERTYPE)
       THEN \* no branch of lines 215-234 assigns allfile
            /\ exception' = "UnboundLocalError"
            /\ bpc' = "raised"
            /\ UNCHANGED <<idx, error_log, self, cpc, calls>>
       ELSE IF Exists(files.allfile)
       THEN /\ self' = NewParticipant(rec, files, Some(offset), args, currpsdata, TRUE)
            /\ bpc' = "construct"
            /\ cpc' = "recording"
            /\ calls' = <<>>
            /\ UNCHANGED <<idx, exception, error_log>>
       ELSE /\ error_log' = Append(error_log, pid)
            /\ idx' = idx + 1
            /\ UNCHANGED <<bpc, exception, self, cpc, calls>>
    /\ UNCHANGED <<EYETRACKERTYPE, args, entry, disk, user_list, pids, log_time_offsets,
                   participants, saccvars, datavars>>

\* Line 246.
ReturnParticipants ==
    /\ bpc = "loop"
    /\ idx >= ZipLength
    /\ bpc' = "returned"
    /\ UNCHANGED <<EYETRACKERTYPE, args, entry, disk, user_list, pids, log_time_offsets, idx,
                   exception, participants, error_log, self, cpc, calls, saccvars, datavars>>

\* Line 161: a batch over recordings 1..n with pids 11..(10 + n), with or
\* without offsets; or (line 32) the constructor called for recording 1 alone.
InitBatch ==
    /\ EYETRACKERTYPE \in TrackerTypes
    /\ \E n \in 0..MaxRecs :
          /\ args \in ArgSets(n)
          /\ log_time_offsets = args.log_time_offsets
          /\ disk \in [1..n -> DiskStates]
          /\ user_list = [k \in 1..n |-> k]
          /\ pids = [k \in 1..n |-> 10 + k]
          /\ \/ /\ entry = "batch"
                /\ bpc = "start"
                /\ self = NoParticipant
                /\ cpc = ""
             \/ /\ n = 1
                /\ entry = "construct"
                /\ bpc = "construct"
                /\ args.log_time_offsets = None
                /\ self = NewParticipant(1, RecordingFiles("TobiiV2", 1), None, args,
                                         read_rest_pupil_sizes(args.rpsfile), TRUE)
                /\ cpc = "recording"
    /\ idx = 0
    /\ exception = ""
    /\ participants = <<>>
    /\ error_log = <<>>
    /\ calls = <<>>

NextBatch ==
    \/ StartBatch
    \/ Iterate
    \/ CreateRecording
    \/ Partition
    \/ ProcessRec
    \/ WholeScene
    \/ CleanScene
    \/ CleanRecording
    \/ ReturnParticipants

InitBatchRun == InitSaccade({<<3, 5>>}) /\ InitBatch /\ DataIdle

SpecBatch == InitBatchRun /\ [][NextBatch]_vars

\* ============================================= TobiiV2Recording.read_all_data
\* Most rows of an All-Data file.
MaxData == 3

\* The rows after a row of timestamp `clock`: the timestamp grows by 0 or 1 or
\* is not a number, each eye has a validity code, and the gaze column avg_x
\* holds a number or nothing.
DataRowsAfter(clock) ==
    { [RecordingTimestamp |-> ts, ValidityLeft |-> Cell(v[1]),
       ValidityRight |-> Cell(v[2]), avg_x |-> x] :
        ts \in {Cell(clock), Cell(clock + 1), EmptyCell},
        v \in ValidityPairs \cup {<<0, 0>>},
        x \in {Cell(1), EmptyCell} }

\* float(text) and int(float(text)) succeed on the text of a number only.
IsNumber(cell) == cell # EmptyCell

\* get_pupil_size, get_pupil_velocity, get_distance: with no value of either
\* eye the result is not available.
get_pupil_size(left, right) == None
get_pupil_velocity(last_left, last_right, left, right, time) == None
get_distance(left, right) == None

\* Lines 44-56: the Datapoint of a row.
MakeDatapoint(r, pupil_left, pupil_right, distance_left, distance_right) ==
    LET timestamp == cast_int(r.RecordingTimestamp) IN
    [timestamp |-> timestamp,
     pupilsize |-> get_pupil_size(pupil_left, pupil_right),
     pupilvelocity |-> get_pupil_velocity(last_pupil_left, last_pupil_right,
                                          pupil_left, pupil_right,
                                          timestamp - last_time),
     distance |-> get_distance(distance_left, distance_right),
     is_valid |-> TRUE,
     is_valid_blink |-> None,
     stimuliname |-> None,
     fixationindex |-> None,
     gazepointxleft |-> cast_int(r.avg_x)]

DataClock == IF all_data = <<>> THEN 0 ELSE all_data[Len(all_data)].timestamp

\* Lines 37-59: one iteration of the loop over the rows.
ReadDataRow ==
    /\ dpc = "reading"
    /\ Len(all_rows) < MaxData
    /\ \E r \in DataRowsAfter(DataClock) :
          /\ all_rows' = Append(all_rows, r)
          /\ IF ~IsNumber(r.RecordingTimestamp) \/ ~IsNumber(r.avg_x)
             THEN \* ValueError of float()
                  /\ dpc' = "raised"
                  /\ UNCHANGED <<all_data, last_pupil_left, last_pupil_right, last_time>>
             ELSE /\ all_data' = Append(all_data, MakeDatapoint(r, None, None, None, None))
                  /\ last_pupil_left' = None
                  /\ last_pupil_right' = None
                  /\ last_time' = cast_int(r.RecordingTimestamp)
                  /\ UNCHANGED dpc
    /\ UNCHANGED <<saccvars, batchvars>>

\* Line 61: the file is exhausted.
ReturnAllData ==
    /\ dpc = "reading"
    /\ dpc' = "returned"
    /\ UNCHANGED <<all_rows, all_data, last_pupil_left, last_pupil_right, last_time,
                   saccvars, batchvars>>

\* Lines 28-35.
InitAllData ==
    /\ all_rows = <<>>
    /\ all_data = <<>>
    /\ last_pupil_left = None
    /\ last_pupil_right = None
    /\ last_time = -1
    /\ dpc = "reading"

NextAllData == ReadDataRow \/ ReturnAllData

InitAllDataRun == InitSaccade({<<3, 5>>}) /\ BatchIdle /\ InitAllData

SpecAllData == InitAllDataRun /\ [][NextAllData]_vars

\* ===================================================== claims, read_saccade_data
Timestamp(r) == cast_int(r.RecordingTimestamp)

\* The row just read is a Fixation row that closes an open window.
ClosesWindow == in_saccade /\ nread' = nread + 1 /\ IsRecordingFixationRow(row')

\* valid_samples / total_samples >= threshold, for the ratio of the last division.
RatioReachesThreshold(rate, thr) == rate[1] * thr[2] >= thr[1] * rate[2]

\* C1: whenever a Fixation row closes an open window, a Saccade is appended if
\* and only if valid_samples / total_samples of the window reaches the
\* threshold, and a window below the threshold appends nothing and raises nothing.
C1_AppendedIffQualityReachesThreshold ==
    [][ClosesWindow =>
          /\ RatioReachesThreshold(rate_valid_sample', threshold)
                <=> Len(all_saccade') = Len(all_saccade) + 1
          /\ ~RatioReachesThreshold(rate_valid_sample', threshold)
                => (all_saccade' = all_saccade /\ pc' # "raised")]_vars

\* C2: the stream Fixation, Fixation, Saccade, Saccade, Fixation with valid
\* rows and a threshold of at most 1 yields exactly one Saccade, of quality 1.0.
C2_PatternYieldsOneFullQualitySaccade ==
    (nread = Len(Pattern) /\ threshold[1] <= threshold[2]) =>
        /\ pc # "raised"
        /\ Len(all_saccade) = 1
        /\ all_saccade[1].saccadequality[1] = all_saccade[1].saccadequality[2]

\* C3 as stated: the duration of the Saccade of the pattern stream is the
\* timestamp of the last Saccade row minus the timestamp of the first Saccade row.
C3_DurationBetweenSaccadeRows ==
    (nread = Len(Pattern) /\ Len(all_saccade) = 1) =>
        all_saccade[1].saccadeduration = Timestamp(stream[4]) - Timestamp(stream[3])

\* C3 amended: the duration of the Saccade of the pattern stream, when one is
\* emitted, is the timestamp of the closing Fixation row minus the timestamp of
\* the second Fixation row, the last row before the first Saccade row.
C3_DurationFromLastGazeToClosingRow ==
    (nread = Len(Pattern) /\ Len(all_saccade) = 1) =>
        all_saccade[1].saccadeduration = Timestamp(stream[5]) - Timestamp(stream[2])

C3_Witness ==
    /\ nread = Len(Pattern)
    /\ Len(all_saccade) = 1
    /\ Timestamp(stream[5]) - Timestamp(stream[2])
          > Timestamp(stream[4]) - Timestamp(stream[3])

\* C4: with a window open 0 <= nb_valid_sample <= nb_sample, the total is at
\* least 1 whenever the ratio is computed, and the quality of every emitted
\* Saccade lies in [0, 1].
C4_QualityInUnitInterval ==
    /\ in_saccade => (0 <= nb_valid_sample /\ nb_valid_sample <= nb_sample)
    /\ rate_valid_sample # <<>> =>
          /\ rate_valid_sample[2] >= 1
          /\ 0 <= rate_valid_sample[1]
          /\ rate_valid_sample[1] <= rate_valid_sample[2]
    /\ \A i \in 1..Len(all_saccade) :
          /\ all_saccade[i].saccadequality[2] >= 1
          /\ 0 <= all_saccade[i].saccadequality[1]
          /\ all_saccade[i].saccadequality[1] <= all_saccade[i].saccadequality[2]

C4_Witness ==
    /\ Len(all_saccade) = 1
    /\ all_saccade[1].saccadequality[1] < all_saccade[1].saccadequality[2]
    /\ in_saccade
    /\ nb_valid_sample = nb_sample

\* C5: a row outside the recording region (another media name, or an empty
\* EyeTrackerTimestamp) leaves every variable of the reconstructor unchanged.
C5_OutsideRowsChangeNothing ==
    [][(nread' = nread + 1
          /\ (row'.MediaName # RecMedia \/ row'.EyeTrackerTimestamp = EmptyCell))
        => UNCHANGED <<recvars, pc>>]_vars

C5_Witness ==
    /\ nread >= 1
    /\ row.MediaName = RecMedia
    /\ row.EyeTrackerTimestamp = EmptyCell
    /\ in_saccade
    /\ last_gaze_coord[1] < Timestamp(row)

\* C6: as long as no Fixation row of the recording was read, the reconstructor
\* has not reached InFixation and the saccade list is empty.
C6_NoFixationNoSaccade ==
    ~fixation_seen =>
        /\ ~in_fixation
        /\ ~in_saccade
        /\ all_saccade = <<>>
        /\ pc # "raised"

C6_Witness ==
    /\ pc = "returned"
    /\ ~fixation_seen
    /\ nread = MaxRows
    /\ row.MediaName = RecMedia
    /\ row.EyeTrackerTimestamp # EmptyCell
    /\ row.GazeEventType = "Saccade"
    /\ all_saccade = <<>>

\* The row just read is a Saccade row that opens a window.
OpensWindow == in_fixation /\ in_saccade' /\ nread' = nread + 1

\* In the words of the file format: an eye has a validity code below 2 and
\* both gaze coordinates are present.
GazeValid(r) ==
    /\ \E eye \in {r.ValidityLeft, r.ValidityRight} : eye[1] < 2
    /\ r.GazePointX # <<>>
    /\ r.GazePointY # <<>>

HasGaze(r) == r.GazePointX # <<>> /\ r.GazePointY # <<>>

HasEstimate(r) == r.FixationPointX # <<>> /\ r.FixationPointY # <<>>

GazeOf(r) == <<r.RecordingTimestamp[1], r.GazePointX[1], r.GazePointY[1]>>

EstimateOf(r) == <<r.RecordingTimestamp[1], r.FixationPointX[1], r.FixationPointY[1]>>

\* The row carries a coordinate: its gaze sample, or the fixation point of a
\* Fixation row.
CarriesCoordinate(r) == HasGaze(r) \/ (r.GazeEventType = "Fixation" /\ HasEstimate(r))

CoordinateOf(r) == IF HasGaze(r) THEN GazeOf(r) ELSE EstimateOf(r)

\* The last position of the sequence of rows that satisfies the test, 0 when
\* there is none.
LastRow(rows, Test(_)) ==
    LET K == {k \in 1..Len(rows) : Test(rows[k])} IN
    IF K = {} THEN 0 ELSE CHOOSE k \in K : \A j \in K : j <= k

FirstFixationRow ==
    LET K == {k \in 1..Len(stream) : IsRecordingFixationRow(stream[k])} IN
    IF K = {} THEN 0 ELSE CHOOSE k \in K : \A j \in K : k <= j

\* C15: the rows before the first Fixation row are discarded: the timestamp
\* of no such row is the start timestamp of an emitted Saccade.
C15_NoRowBeforeFirstFixationReachesSaccade ==
    \A k \in 1..Len(all_saccade) :
        \A j \in 1..Len(stream) :
            j < FirstFixationRow => all_saccade[k].timestamp # Timestamp(stream[j])

\* C16 as stated, on the streams without fixation points: when a window
\* opens, its first point is the gaze coordinate of the most recent earlier
\* row whose gaze was valid, and the current row is the second point exactly
\* when it is valid.
C16_WindowSeededWithLastValidGaze ==
    [][(OpensWindow /\ LastRow(stream, HasEstimate) = 0) =>
        LET k == LastRow(stream, GazeValid) IN
        /\ k # 0 => saccade_vect'[1] = GazeOf(stream[k])
        /\ IF GazeValid(row')
           THEN Len(saccade_vect') = 2 /\ saccade_vect'[2] = GazeOf(row')
           ELSE Len(saccade_vect') = 1]_vars

\* C16 amended: when a window opens, its first point is the coordinate of the
\* most recent earlier row that carries one (a gaze sample, whatever its
\* validity codes, or else the fixation point of a Fixation row), and the
\* current row is the second point exactly when it is valid.
C16_WindowSeededWithLastCoordinate ==
    [][OpensWindow =>
        LET k == LastRow(stream, CarriesCoordinate) IN
        /\ k # 0 => saccade_vect'[1] = CoordinateOf(stream[k])
        /\ IF GazeValid(row')
           THEN Len(saccade_vect') = 2 /\ saccade_vect'[2] = GazeOf(row')
           ELSE Len(saccade_vect') = 1]_vars

\* A window seeded by a row with gaze coordinates and no valid eye, read after
\* a row with a valid gaze sample.
C16_Witness ==
    /\ in_saccade
    /\ nread = 3
    /\ GazeValid(stream[1])
    /\ HasGaze(stream[2]) /\ ~GazeValid(stream[2])
    /\ GazeValid(stream[3])
    /\ saccade_vect = <<GazeOf(stream[2]), GazeOf(stream[3])>>

\* C17: when a Fixation row closes a window, the row adds one to the valid and
\* to the total counter and gives the end point of the Saccade, if one is
\* emitted, when its gaze is valid (the gaze coordinate) or else its fixation
\* point is present (the fixation point); otherwise it adds one to the total
\* counter only.
C17_ClosingRowGivesEndPoint ==
    [][ClosesWindow =>
        LET r == row'
            emitted == Len(all_saccade') = Len(all_saccade) + 1
            s == all_saccade'[Len(all_saccade')]
        IN
        /\ GazeValid(r) =>
              /\ rate_valid_sample' = <<nb_valid_sample + 1, nb_sample + 1>>
              /\ emitted => <<s.saccadeendpointx, s.saccadeendpointy>>
                               = <<r.GazePointX[1], r.GazePointY[1]>>
        /\ (~GazeValid(r) /\ HasEstimate(r)) =>
              /\ rate_valid_sample' = <<nb_valid_sample + 1, nb_sample + 1>>
              /\ emitted => <<s.saccadeendpointx, s.saccadeendpointy>>
                               = <<r.FixationPointX[1], r.FixationPointY[1]>>
        /\ (~GazeValid(r) /\ ~HasEstimate(r)) =>
              rate_valid_sample' = <<nb_valid_sample, nb_sample + 1>>
        /\ emitted => s.saccadequality = rate_valid_sample']_vars

\* A Saccade closed by a Fixation row whose gaze is present but invalid and
\* which carries a fixation point.
C17_Witness ==
    /\ all_saccade # <<>>
    /\ IsRecordingFixationRow(row)
    /\ HasGaze(row) /\ ~GazeValid(row) /\ HasEstimate(row)
    /\ LET s == all_saccade[Len(all_saccade)] IN
       /\ s.timestamp + s.saccadeduration = Timestamp(row)
       /\ s.saccadeduration > 0
       /\ <<s.saccadeendpointx, s.saccadeendpointy>>
             = <<row.FixationPointX[1], row.FixationPointY[1]>>
       /\ s.saccadequality = rate_valid_sample

Points(vect) == { vect[k] : k \in 1..Len(vect) }

\* C18 as stated, on the streams whose first row carries a coordinate: no
\* point of the coordinate list of a closed window is a point of the window
\* that opens next.
C18_NoPointOfClosedWindowInNextWindow ==
    [][(OpensWindow /\ stream # <<>> /\ CarriesCoordinate(stream[1])) =>
        Points(saccade_vect') \cap Points(saccade_vect) = {}]_vars

\* C18 amended: a window that opens after another was closed starts afresh
\* from the last coordinate seen: its list is that coordinate and, if valid,
\* the current row; its valid counter counts these two samples; its total
\* counter is 2 plus the rows read since the last Fixation row.  No counter
\* value of the closed window is carried over.
C18_NextWindowStartsAfresh ==
    [][(OpensWindow /\ rate_valid_sample # <<>>) =>
        LET k == LastRow(stream, CarriesCoordinate)
            seed_valid == IF k = 0 THEN FALSE
                          ELSE IF HasGaze(stream[k]) THEN GazeValid(stream[k])
                          ELSE TRUE
            current_valid == GazeValid(row')
            since_fixation == Len(stream) - LastRow(stream, IsRecordingFixationRow)
        IN
        /\ k # 0 => saccade_vect'[1] = CoordinateOf(stream[k])
        /\ Len(saccade_vect') = 1 + B2N(current_valid)
        /\ nb_valid_sample' = B2N(seed_valid) + B2N(current_valid)
        /\ nb_sample' = 2 + since_fixation]_vars

\* A window opened after a window of one valid sample out of three was
\* dropped.
C18_Witness ==
    /\ in_saccade
    /\ nread = 4
    /\ all_saccade = <<>>
    /\ rate_valid_sample = <<1, 3>>
    /\ nb_sample = 2
    /\ nb_valid_sample <= 2

\* C20: in_fixation and in_saccade are never both true; a window opens during
\* a fixation only; and once a fixation has begun, one of the two flags stays
\* true.
C20_OneStateAtATime ==
    /\ [](~(in_fixation /\ in_saccade))
    /\ [][/\ (~in_saccade /\ in_saccade') => in_fixation
          /\ (in_fixation \/ in_saccade) => (in_fixation' \/ in_saccade')]_vars

\* A second window is open.
C20_Witness ==
    /\ in_saccade
    /\ ~in_fixation
    /\ all_saccade # <<>>

\* The start of a Saccade: its start timestamp and start point.
StartOf(s) == <<s.timestamp, s.saccadestartpointx, s.saccadestartpointy>>

\* The value last_gaze_coord has before any row is read.
Placeholder == <<0, 0, 0>>

C22_SaccadeStartsAtARow ==
    \A k \in 1..Len(all_saccade) :
        /\ StartOf(all_saccade[k]) # Placeholder
        /\ \E j \in 1..Len(stream) :
              \/ HasGaze(stream[j]) /\ StartOf(all_saccade[k]) = GazeOf(stream[j])
              \/ HasEstimate(stream[j])
                    /\ StartOf(all_saccade[k]) = EstimateOf(stream[j])

\* C23, on the windows that start at a coordinate of a row: the loop never
\* ends with an arithmetic failure, the total counter is positive whenever the
\* quality is computed and the duration is positive whenever the speed is.
C23_NoArithmeticFailure ==
    (saccade_vect # <<>> /\ saccade_vect[1] # Placeholder) =>
        /\ pc # "raised"
        /\ rate_valid_sample # <<>> => rate_valid_sample[2] > 0
        /\ \A k \in 1..Len(all_saccade) : all_saccade[k].saccadeduration > 0

\* C24: a window still open when the stream ends is not emitted: the
\* Saccades emitted are at most as many as the windows closed, which are at
\* most as many as the windows opened, and exactly one fewer while a window
\* is open.
C24_EmittedAtMostClosedAtMostOpened ==
    /\ Len(all_saccade) <= closed
    /\ closed <= opened
    /\ opened = closed + B2N(in_saccade)

\* The stream ended with its second window open, after one Saccade.
C24_Witness ==
    /\ pc = "returned"
    /\ in_saccade
    /\ opened = 2
    /\ closed = 1
    /\ Len(all_saccade) = 1

\* ===================================================== claims, BasicParticipant
\* Every expected file of recording k is on the disk.
FilesPresent(k) ==
    LET files == RecordingFiles(EYETRACKERTYPE, user_list[k]) IN
    Exists(files.allfile) /\ Exists(files.fixfile) /\ Exists(files.segfile)

WellFormed(k) == ~disk[k].malformed

HasSegments(k) == disk[k].seg # NoSegments

\* The values seq[k] of the positions k that satisfy Keep, in order.
Pick(seq, n, Keep(_)) ==
    LET positions == SelectSeq([k \in 1..n |-> k], Keep) IN
    [j \in 1..Len(positions) |-> seq[positions[j]]]

ParticipantIds == [k \in 1..Len(participants) |-> participants[k].pid]

ConstructorCalls == { calls[k][1] : k \in 1..Len(calls) }

\* The caller gave no offsets, or one for every recording.
OffsetsForAll ==
    \/ args.log_time_offsets = None
    \/ Len(args.log_time_offsets[1]) >= Len(user_list)

\* C7: in a batch whose recordings all have their files and their segments, a
\* recording with a malformed file is the only one lost: the batch does not end
\* with the error and returns the Participants of the well-formed recordings.
C7_ParseErrorLosesOnlyItsRecording ==
    (entry = "batch" /\ KnownTracker(EYETRACKERTYPE) /\ OffsetsForAll
       /\ \A k \in 1..Len(user_list) : FilesPresent(k) /\ HasSegments(k))
    => /\ bpc # "raised"
       /\ bpc = "returned" =>
             ParticipantIds = Pick(user_list, Len(user_list), WellFormed)

\* C8: in a batch of well-formed recordings with segments, every recording
\* with an absent sample, fixation or segment file is logged and skipped without
\* raising, and all the others yield a Participant.
C8_MissingFilesAreLoggedAndSkipped ==
    (entry = "batch" /\ KnownTracker(EYETRACKERTYPE) /\ OffsetsForAll
       /\ \A k \in 1..Len(user_list) : WellFormed(k) /\ HasSegments(k))
    => /\ bpc # "raised"
       /\ bpc = "returned" =>
             /\ ParticipantIds = Pick(user_list, Len(user_list), FilesPresent)
             /\ Len(error_log) = Len(user_list) - Len(participants)

\* C9: when the partition of the segment file yields zero segments the
\* constructor fails, and process_rec, the Scene of the whole recording and
\* clean_memory are never called for that participant.
C9_NoSegmentsStopsConstruction ==
    /\ ("partition" \in ConstructorCalls
          /\ Exists(self.files.segfile)
          /\ disk[self.files.segfile[1]].seg = NoSegments)
       => /\ cpc = "raised"
          /\ bpc = "raised"
          /\ exception = "No segments found."
          /\ ConstructorCalls \subseteq {"Recording", "partition"}
    /\ \A k \in 1..Len(participants) : HasSegments(participants[k].pid)

C9_Witness ==
    /\ entry = "batch"
    /\ exception = "No segments found."
    /\ Len(participants) = 1
    /\ calls = << <<"Recording", 2>>, <<"partition", 2>> >>

\* C10: with a tracker type other than TobiiV2, TobiiV3 and SMI no recording
\* file is parsed, nothing is partitioned, no Participant is built and the run
\* does not return.
C10_UnknownTrackerEndsWithError ==
    ~KnownTracker(EYETRACKERTYPE) =>
        /\ calls = <<>>
        /\ participants = <<>>
        /\ bpc # "returned"

\* The place of a call in the order of construction.
StepRank(op) ==
    CASE op = "Recording" -> 1
      [] op = "partition" -> 2
      [] op = "process_rec" -> 3
      [] op = "Scene" -> 4
      [] op = "Scene.clean_memory" -> 5
      [] op = "Recording.clean_memory" -> 6

CleanCalls == {"Scene.clean_memory", "Recording.clean_memory"}

AllCleaned(p) ==
    /\ p.rec = "cleaned"
    /\ \A k \in 1..Len(p.scenes) : p.scenes[k].cleaned

\* C11: the calls of a construction are made in the order Recording,
\* partition, process_rec, Scene of the whole recording, clean_memory of the
\* scenes, clean_memory of the recording; no clean_memory precedes the Scene
\* of the whole recording; and when the construction has succeeded, each step
\* was made, clean_memory was called once on every scene of the list, the
\* whole-recording Scene included, and on the recording.
C11_ConstructionOrder ==
    /\ \A i, j \in 1..Len(calls) :
          i < j => StepRank(calls[i][1]) <= StepRank(calls[j][1])
    /\ \A j \in 1..Len(calls) :
          calls[j][1] \in CleanCalls =>
             /\ self.whole_scene # 0
             /\ \E i \in 1..(j - 1) : calls[i][1] = "Scene"
    /\ cpc = "done" =>
          /\ ConstructorCalls = {"Recording", "partition", "process_rec", "Scene",
                                 "Scene.clean_memory", "Recording.clean_memory"}
          /\ \A op \in ConstructorCalls \ {"Scene.clean_memory"} :
                Cardinality({k \in 1..Len(calls) : calls[k][1] = op}) = 1
          /\ self.whole_scene \in 1..Len(self.scenes)
          /\ \A k \in 1..Len(self.scenes) :
                Cardinality({j \in 1..Len(calls) :
                    calls[j] = <<"Scene.clean_memory", k>>}) = 1
          /\ AllCleaned(self)
    /\ \A k \in 1..Len(participants) : AllCleaned(participants[k])

C11_Witness ==
    /\ cpc = "done"
    /\ Len(self.scenes) = 3
    /\ Len(calls) = 8
    /\ calls[5] = <<"Scene.clean_memory", 1>>
    /\ Len(participants) = 2

\* The number of positions of seq that hold x.
Count(seq, x) == Cardinality({k \in 1..Len(seq) : seq[k] = x})

\* C12: once the Scene of the whole recording is built it is the first scene
\* of the list and the scenes of process_rec follow in their order; its
\* segments are those of process_rec, each exactly once, in non-decreasing
\* order of start, those of equal start in their original relative order.
C12_WholeSceneFirstSegmentsStablySorted ==
    (bpc # "raised" /\ cpc \in {"clean_scenes", "done"}) =>
        LET S == self.segments
            W == self.scenes[1].segments
        IN
        /\ self.whole_scene = 1
        /\ Len(self.scenes) = 1 + Len(self.scenelist)
        /\ \A k \in 1..Len(self.scenelist) :
              /\ self.scenes[k + 1].name = self.scenelist[k].name
              /\ self.scenes[k + 1].segments = self.scenelist[k].segs
        /\ Len(W) = Len(S)
        /\ \A k \in 1..Len(S) : Count(W, S[k]) = Count(S, S[k])
        /\ \A i, j \in 1..Len(W) : i < j => W[i][2] <= W[j][2]
        /\ \A i, j \in 1..Len(W) :
              (i < j /\ W[i][2] = W[j][2]) =>
                 \E a, b \in 1..Len(S) : a < b /\ S[a] = W[i] /\ S[b] = W[j]

C12_Witness ==
    /\ cpc = "done"
    /\ self.segments = << <<"a", 5>>, <<"b", 0>>, <<"c", 5>> >>
    /\ self.scenes[1].segments = << <<"b", 0>>, <<"a", 5>>, <<"c", 5>> >>
    /\ self.scenes[2].name = "s1"
    /\ self.scenes[3].name = "s2"

\* C14: in a batch called without log_time_offsets, the Participant of every
\* recording is constructed with a log-time offset of 1000 (ms).
C14_DefaultOffsetIs1000 ==
    (entry = "batch" /\ args.log_time_offsets = None) =>
        /\ bpc = "construct" => self.log_time_offset = Some(1000)
        /\ \A k \in 1..Len(participants) :
              participants[k].log_time_offset = Some(1000)

\* The policy inputs a Scene was built with.
PolicyInputs(scene) ==
    [prune_length |-> scene.prune_length, require_valid |-> scene.require_valid,
     aoilist |-> scene.aoilist, export_pupilinfo |-> scene.export_pupilinfo,
     rpsdata |-> scene.rpsdata]

\* C19: the Scene of the whole recording is built with the policy inputs of
\* the scenes of process_rec: the same prune_length, require_valid flag, AOI
\* list, export_pupilinfo flag and rest-pupil baseline.
C19_WholeSceneBuiltWithSamePolicy ==
    (bpc # "idle" /\ self # NoParticipant /\ self.whole_scene # 0) =>
        \A k \in 1..Len(self.scenes) :
            PolicyInputs(self.scenes[k]) = PolicyInputs(self.scenes[self.whole_scene])

\* The sample file of recording k is absent.
SampleFileAbsent(k) ==
    ~Exists(RecordingFiles(EYETRACKERTYPE, user_list[k]).allfile)

\* C25, on the batches of well-formed recordings with segments whose files
\* are all present or whose sample file is absent: with offsets supplied,
\* every recording of user_list yields one Participant or one entry of the
\* missing-file log, and the Participants are in the order of user_list.
C25_EveryRecordingAccountedFor ==
    (entry = "batch" /\ KnownTracker(EYETRACKERTYPE)
       /\ args.log_time_offsets # None
       /\ \A k \in 1..Len(user_list) :
             /\ WellFormed(k) /\ HasSegments(k)
             /\ FilesPresent(k) \/ SampleFileAbsent(k))
    => /\ bpc # "raised"
       /\ bpc = "returned" =>
             /\ ParticipantIds = Pick(user_list, Len(user_list), FilesPresent)
             /\ error_log = Pick(pids, Len(pids), SampleFileAbsent)

\* C26: the Participant of the i-th recording is identified by pids[i], the
\* id that selects its rest-pupil baseline.
C26_ParticipantIdentifiedByPid ==
    entry = "batch" =>
        /\ bpc = "construct" =>
              /\ self.pid = pids[idx + 1]
              /\ self.rpsdata # None => self.rpsdata[1][2] = self.pid
        /\ \A k \in 1..Len(participants) :
              /\ \E i \in 1..Len(pids) : participants[k].pid = pids[i]
              /\ participants[k].rpsdata # None =>
                    participants[k].rpsdata[1][2] = participants[k].pid

\* ======================================================= claims, read_all_data
\* C13: every Datapoint of read_all_data is marked valid exactly when at least
\* one eye of its row has a validity code below 2.
C13_ValidIffOneEyeValid ==
    (dpc # "raised" /\ Len(all_rows) = Len(all_data)) =>
        \A k \in 1..Len(all_data) :
            all_data[k].is_valid <=>
                (cast_int(all_rows[k].ValidityRight) < 2
                   \/ cast_int(all_rows[k].ValidityLeft) < 2)
====
